---- MODULE Spec2Model ----
(***************************************************************************)
(* Page-table mapper of kernel/src/mm/page.rs over a frame allocator of    *)
(* kernel/src/mm/allocator/page_frame.rs.                                  *)
(*                                                                         *)
(* Physical memory is a map from frame numbers to PAGE_ENTRY_NUM words;    *)
(* every table access of the source (Arch::read / Arch::write through      *)
(* entry_virt) reads or writes one word of it.  Words are integers of      *)
(* WordBits bits and the bit operators of the source are computed bit by   *)
(* bit.  The architecture (MMArch) is a miniature one with the layout of   *)
(* x86_64: flag bits below PAGE_SHIFT, NO_EXEC in the top bit, the address *)
(* field in between.                                                       *)
(***************************************************************************)
EXTENDS Integers, Sequences, FiniteSets, TLC

\* mem, free, calls, last: the page tables in memory, the allocator's free
\* frames, the number of mapper calls made and the record of the last one.
\* tokens, tlb: the flushers that exist and the TLB invalidations issued.
\* iter: a frame iterator and what it has yielded.
\* pure: the argument and the result of a function without state.
VARIABLES mem, free, calls, last, tokens, tlb, iter, pure

vars == <<mem, free, calls, last, tokens, tlb, iter, pure>>

(***************************************************************************)
(* Architecture description (MemoryManagementArch)                         *)
(***************************************************************************)
WordBits == 7
PAGE_SHIFT == 3
PAGE_ENTRY_SHIFT == 1
PAGE_LEVELS == 3

WordMax == 2^WordBits - 1
PAGE_SIZE == 2^PAGE_SHIFT
PAGE_ENTRY_NUM == 2^PAGE_ENTRY_SHIFT
PAGE_ENTRY_MASK == PAGE_ENTRY_NUM - 1
PAGE_ADDRESS_SHIFT == PAGE_LEVELS * PAGE_ENTRY_SHIFT + PAGE_SHIFT
PAGE_ADDRESS_SIZE == 2^PAGE_ADDRESS_SHIFT
PAGE_ADDRESS_MASK == PAGE_ADDRESS_SIZE - PAGE_SIZE
ENTRY_FLAGS_MASK == WordMax - PAGE_ADDRESS_MASK

ENTRY_FLAG_PRESENT == 1
ENTRY_FLAG_READONLY == 0
ENTRY_FLAG_READWRITE == 2
ENTRY_FLAG_USER == 4
ENTRY_FLAG_NO_EXEC == 2^(WordBits - 1)
ENTRY_FLAG_EXEC == 0
ENTRY_FLAG_DEFAULT_TABLE == ENTRY_FLAG_PRESENT

\* First address of the kernel half of the virtual address space.
USER_END_VADDR == 2^(PAGE_ADDRESS_SHIFT - 1)

Word == 0..WordMax

(***************************************************************************)
(* usize operators &, |, ! and the shifts.  The bitwise ones are computed  *)
(* bit by bit once, for every pair of words, and then looked up.           *)
(***************************************************************************)
RECURSIVE AndBits(_, _)
AndBits(a, b) ==
    IF a = 0 \/ b = 0 THEN 0
    ELSE (a % 2) * (b % 2) + 2 * AndBits(a \div 2, b \div 2)

RECURSIVE OrBits(_, _)
OrBits(a, b) ==
    IF a = 0 THEN b
    ELSE IF b = 0 THEN a
    ELSE (IF a % 2 = 1 \/ b % 2 = 1 THEN 1 ELSE 0)
         + 2 * OrBits(a \div 2, b \div 2)

AndTable == [a \in Word |-> [b \in Word |-> AndBits(a, b)]]

OrTable == [a \in Word |-> [b \in Word |-> OrBits(a, b)]]

BitAnd(a, b) == AndTable[a][b]

BitOr(a, b) == OrTable[a][b]

BitNot(a) == WordMax - a

Shr(a, s) == a \div (2^s)

Shl(a, s) == (a * 2^s) % (2^WordBits)

(***************************************************************************)
(* round_down_to_page_size and round_up_to_page_size                       *)
(***************************************************************************)
round_down_to_page_size(addr) == BitAnd(addr, BitNot(PAGE_SIZE - 1))

\* The sum addr + PAGE_SIZE - 1 is a usize addition: when it exceeds the
\* word it panics in a build with overflow checks and wraps in one
\* without.  Each result is [panic, v].
round_up_to_page_size(addr) ==
    LET sum == addr + PAGE_SIZE - 1 IN
    IF sum > WordMax
    THEN { [panic |-> TRUE, v |-> 0],
           [panic |-> FALSE,
            v |-> round_down_to_page_size(sum % (2^WordBits))] }
    ELSE { [panic |-> FALSE, v |-> round_down_to_page_size(sum)] }

(***************************************************************************)
(* Option<T>: None is the empty sequence, Some(x) the sequence <<x>>.      *)
(***************************************************************************)
None == <<>>

Some(x) == <<x>>

Unwrap(o) == o[1]

(***************************************************************************)
(* Addresses and frames                                                    *)
(***************************************************************************)
check_aligned(addr, align) == BitAnd(addr, align - 1) = 0

\* VirtAddr::kind: the half of the address space the address lies in.
kind(virt) == IF virt >= USER_END_VADDR THEN "Kernel" ELSE "User"

Frames == 0..(PAGE_ADDRESS_SIZE \div PAGE_SIZE - 1)

Indices == 0..(PAGE_ENTRY_NUM - 1)

FrameOf(paddr) == paddr \div PAGE_SIZE

AddrOf(frame) == frame * PAGE_SIZE

(***************************************************************************)
(* PhysPageFrame, VirtPageFrame and their iterators.  A frame is its       *)
(* number; an iterator is [current, end]; next returns the item and the    *)
(* iterator as the call leaves it.                                         *)
(***************************************************************************)
next_by(number, n) == number + n

iter_range(start, end) == [current |-> start, end |-> end]

PhysPageFrameIter_next(it) ==
    IF it.current = it.end
    THEN [item |-> None, it |-> it]
    ELSE LET current == next_by(it.current, 1) IN
         [item |-> Some(current), it |-> it]

VirtPageFrameIter_next(it) ==
    IF it.current = it.end
    THEN [item |-> None, it |-> it]
    ELSE LET current == next_by(it.current, 1) IN
         [item |-> Some(current), it |-> it]

(***************************************************************************)
(* PageEntry                                                               *)
(***************************************************************************)
present(data) == BitAnd(data, ENTRY_FLAG_PRESENT) # 0

\* Result<PhysAddr, PhysAddr>: the address and whether it is Ok.
address(data) ==
    [ok |-> present(data), paddr |-> BitAnd(data, PAGE_ADDRESS_MASK)]

flags(data) == BitAnd(data, ENTRY_FLAGS_MASK)

\* A set_flags that stores the new flags without keeping the address bits.
set_flags_only(data, f) == f

set_flags(data, f) == BitOr(BitAnd(data, BitNot(ENTRY_FLAGS_MASK)), f)

(***************************************************************************)
(* PageFlags                                                               *)
(***************************************************************************)
\* An update_flags that sets the bits whatever the value is.
update_flags_set(data, flag, value) == BitOr(data, flag)

update_flags(data, flag, value) ==
    IF value THEN BitOr(data, flag) ELSE BitAnd(data, BitNot(flag))

has_flag(data, flag) == BitAnd(data, flag) = flag

flag_present(data) == has_flag(data, ENTRY_FLAG_PRESENT)

user(data) == has_flag(data, ENTRY_FLAG_USER)

set_write(data, value) ==
    update_flags(update_flags(data, ENTRY_FLAG_READONLY, ~value),
                 ENTRY_FLAG_READWRITE, value)

write(data) ==
    BitAnd(data, BitOr(ENTRY_FLAG_READWRITE, ENTRY_FLAG_READONLY))
        = ENTRY_FLAG_READWRITE

execute(data) ==
    BitAnd(data, BitOr(ENTRY_FLAG_EXEC, ENTRY_FLAG_NO_EXEC)) = ENTRY_FLAG_EXEC

(***************************************************************************)
(* PageTable: a node is [base, phys, level]; m is the memory it reads.     *)
(***************************************************************************)
PageTable(base, phys, level) == [base |-> base, phys |-> phys, level |-> level]

entry_base(t, i) ==
    IF i < PAGE_ENTRY_NUM
    THEN Some((t.base + Shl(i, t.level * PAGE_ENTRY_SHIFT + PAGE_SHIFT))
              % (2^WordBits))
    ELSE None

entry(m, t, i) ==
    IF i < PAGE_ENTRY_NUM THEN Some(m[FrameOf(t.phys)][i]) ELSE None

set_entry(m, t, i, data) ==
    IF i < PAGE_ENTRY_NUM
    THEN [m EXCEPT ![FrameOf(t.phys)][i] = data]
    ELSE m

\* An entry_mapped that reports every slot in range as empty.
entry_mapped_never(m, t, i) ==
    IF i < PAGE_ENTRY_NUM THEN Some(FALSE) ELSE None

entry_mapped(m, t, i) ==
    IF i < PAGE_ENTRY_NUM THEN Some(m[FrameOf(t.phys)][i] # 0) ELSE None

index_of(t, addr) ==
    LET a == BitAnd(addr, PAGE_ADDRESS_MASK)
        shift == t.level * PAGE_ENTRY_SHIFT + PAGE_SHIFT
        index == Shr(a, shift)
    IN  IF index >= PAGE_ENTRY_NUM
        THEN None
        ELSE Some(BitAnd(index, PAGE_ENTRY_MASK))

next_level_table(m, t, index) ==
    IF t.level = 0 THEN None
    ELSE LET b == entry_base(t, index)
             e == entry(m, t, index)
         IN  IF b = None \/ e = None THEN None
             ELSE LET a == address(Unwrap(e)) IN
                  IF ~a.ok THEN None
                  ELSE Some(PageTable(Unwrap(b), a.paddr, t.level - 1))

(***************************************************************************)
(* Bounds of the model                                                     *)
(***************************************************************************)
\* Frames the allocator owns besides the root table's frame.
NumPoolFrames == 3

\* Calls made on the mapper.
MaxCalls == 3

\* Frames in the range of an iterator, and calls of next made on it.
MaxIterLen == 3

MaxNext == 5

(***************************************************************************)
(* FrameAllocator: the state is the set of free frames; allocate hands out *)
(* the lowest free frame.                                                  *)
(***************************************************************************)
\* PageMapper.table_paddr: the root table lives in frame 1.
table_paddr == AddrOf(1)

PoolFrames == {f \in Frames : 2 <= f /\ f <= 1 + NumPoolFrames}

\* A frame outside the allocator (device or reserved memory): the last one.
ExtFrame == PAGE_ADDRESS_SIZE \div PAGE_SIZE - 1

allocate_one(fr) ==
    IF fr = {} THEN None
    ELSE Some(AddrOf(CHOOSE f \in fr : \A g \in fr : f <= g))

free_one(fr, paddr) == fr \cup {FrameOf(paddr)}

(***************************************************************************)
(* Contents of a frame the allocator hands out.  Nothing in map_phys       *)
(* writes the frame before it is read as a table, so its words are         *)
(* whatever the frame held before: what the model last saw in it, or words *)
(* left by another owner: a present entry pointing at the frame itself, at *)
(* the root table or at a frame outside the allocator.                     *)
(***************************************************************************)
StaleWords(frame) ==
    { BitOr(AddrOf(frame), BitOr(ENTRY_FLAG_PRESENT, ENTRY_FLAG_READWRITE)),
      BitOr(table_paddr, BitOr(ENTRY_FLAG_PRESENT, ENTRY_FLAG_READWRITE)),
      BitOr(AddrOf(ExtFrame), ENTRY_FLAG_PRESENT) }

\* The stale word sits in the first entry of the frame.
StaleContents(frame) ==
    { [k \in Indices |-> IF k = 0 THEN w ELSE 0] : w \in StaleWords(frame) }

\* Memory m as a table walk sees it once `frame` is first read as a table.
Uninit(m, frame) ==
    {m} \cup { [m EXCEPT ![frame] = c] : c \in StaleContents(frame) }

(***************************************************************************)
(* PageFlush, PageFlushAll and the Flusher collectors.  A flusher is       *)
(* [type, virt, state]: state is "held" while it exists, "flushed" after   *)
(* flush, "ignored" after ignore (mem::forget) and "dropped" when it went  *)
(* out of scope without either.  The TLB is the sequence of invalidations  *)
(* the architecture was asked for.                                         *)
(***************************************************************************)
\* A PageFlush::new that records the page of the address.
PageFlush_new_page(virt) ==
    [type |-> "page", virt |-> round_down_to_page_size(virt),
     state |-> "held"]

PageFlush_new(virt) == [type |-> "page", virt |-> virt, state |-> "held"]

PageFlushAll_new == [type |-> "all", virt |-> 0, state |-> "held"]

\* flush: the flusher after the call and the TLB after it.
PageFlush_flush(t, flusher) ==
    [flusher |-> [flusher EXCEPT !.state = "flushed"],
     tlb |-> Append(t, [op |-> "invalidate_page", virt |-> flusher.virt])]

PageFlushAll_flush(t, flusher) ==
    [flusher |-> [flusher EXCEPT !.state = "flushed"],
     tlb |-> Append(t, [op |-> "invalidate_all", virt |-> 0])]

ignore(flusher) == [flusher EXCEPT !.state = "ignored"]

\* Flusher::consume of PageFlushAll, of () and of &mut T: what becomes of
\* the PageFlush handed over.
consume_PageFlushAll(flusher) == ignore(flusher)

consume_unit(flusher) == [flusher EXCEPT !.state = "dropped"]

consume_ref(collector, flusher) ==
    IF collector = "PageFlushAll" THEN consume_PageFlushAll(flusher)
    ELSE consume_unit(flusher)

(***************************************************************************)
(* PageMapper                                                              *)
(***************************************************************************)
table == PageTable(0, table_paddr, PAGE_LEVELS - 1)

\* Outcome of a mapper call: memory, free set, result ("some", "none" or
\* "panic"), the returned pair of a Some, the reason of a none, and the
\* addresses passed to the allocator's free, in order.
Outcome(m, fr, ret, pair, why, freed) ==
    [mem |-> m, free |-> fr, ret |-> ret, pair |-> pair, why |-> why,
     freed |-> freed]

NoPair == [paddr |-> 0, flags |-> 0]

Miss(m, fr, why) == Outcome(m, fr, "none", NoPair, why, <<>>)

\* Flags of the entry that links a new intermediate table.
table_entry_flags(virt) ==
    BitOr(BitOr(ENTRY_FLAG_READWRITE, ENTRY_FLAG_DEFAULT_TABLE),
          IF kind(virt) = "User" THEN ENTRY_FLAG_USER ELSE 0)

\* The loop of map_phys from table t on: the set of its possible outcomes.
RECURSIVE map_phys_loop(_, _, _, _, _)
map_phys_loop(m, fr, t, virt, e) ==
    LET io == index_of(t, virt) IN
    IF io = None THEN {Miss(m, fr, "index")}
    ELSE
    LET i == Unwrap(io) IN
    IF t.level = 0
    THEN LET mapped == entry_mapped(m, t, i) IN
         IF mapped = None THEN {Miss(m, fr, "index")}
         ELSE IF Unwrap(mapped)
         THEN {Outcome(m, fr, "panic", NoPair, "mapped", <<>>)}
         ELSE {Outcome(set_entry(m, t, i, e), fr, "some", NoPair, "", <<>>)}
    ELSE LET next_table == next_level_table(m, t, i) IN
         IF next_table # None
         THEN map_phys_loop(m, fr, Unwrap(next_table), virt, e)
         ELSE LET a == allocate_one(fr) IN
              IF a = None THEN {Miss(m, fr, "alloc")}
              ELSE LET frame == Unwrap(a)
                       fr1 == fr \ {FrameOf(frame)}
                       linked(m0) ==
                           set_entry(m0, t, i,
                                     BitOr(frame, table_entry_flags(virt)))
                       descend(m1) ==
                           LET nt == next_level_table(m1, t, i) IN
                           IF nt = None THEN {Miss(m1, fr1, "index")}
                           ELSE map_phys_loop(m1, fr1, Unwrap(nt), virt, e)
                   IN  UNION { descend(linked(m0)) :
                                 m0 \in Uninit(m, FrameOf(frame)) }

\* A map_phys that tests the alignment of the virtual address only.
map_phys_virt_only(m, fr, virt, phys, f) ==
    IF ~check_aligned(virt, PAGE_SIZE)
    THEN {Miss(m, fr, "align")}
    ELSE map_phys_loop(m, fr, table, virt, BitOr(phys, f))

\* A map_phys that, when the allocator runs out, takes the tables it has
\* linked on this walk out of the tree again.
map_phys_unlinking(m, fr, virt, phys, f) ==
    IF ~(check_aligned(virt, PAGE_SIZE) /\ check_aligned(phys, PAGE_SIZE))
    THEN {Miss(m, fr, "align")}
    ELSE { IF o.why = "alloc" THEN Miss(m, o.free, "alloc") ELSE o :
             o \in map_phys_loop(m, fr, table, virt, BitOr(phys, f)) }

map_phys(m, fr, virt, phys, f) ==
    IF ~(check_aligned(virt, PAGE_SIZE) /\ check_aligned(phys, PAGE_SIZE))
    THEN {Miss(m, fr, "align")}
    ELSE map_phys_loop(m, fr, table, virt, BitOr(phys, f))

\* map: the backing frame comes from the allocator.  Each outcome also
\* names the physical address that was passed on to map_phys.
map(m, fr, virt, f) ==
    LET a == allocate_one(fr) IN
    IF a = None THEN {[out |-> Miss(m, fr, "alloc_leaf"), phys |-> 0]}
    ELSE {[out |-> o, phys |-> Unwrap(a)] :
            o \in map_phys(m, fr \ {FrameOf(Unwrap(a))}, virt, Unwrap(a), f)}

\* Arch::phys_2_virt: the linear alias of a physical address in the kernel
\* half, when there is one.
phys_2_virt(phys) ==
    IF phys + USER_END_VADDR < PAGE_ADDRESS_SIZE
    THEN Some(phys + USER_END_VADDR)
    ELSE None

\* map_linearly: each outcome also names the virtual address.
map_linearly(m, fr, phys, f) ==
    LET v == phys_2_virt(phys) IN
    IF v = None THEN {[out |-> Miss(m, fr, "phys_2_virt"), virt |-> 0]}
    ELSE {[out |-> o, virt |-> Unwrap(v)] :
            o \in map_phys(m, fr, Unwrap(v), phys, f)}

\* visit: the leaf table for virt and the index in it, or None.
RECURSIVE visit_from(_, _, _)
visit_from(m, t, virt) ==
    LET io == index_of(t, virt) IN
    IF io = None THEN None
    ELSE IF t.level = 0 THEN Some([table |-> t, i |-> Unwrap(io)])
    ELSE LET nt == next_level_table(m, t, Unwrap(io)) IN
         IF nt = None THEN None ELSE visit_from(m, Unwrap(nt), virt)

visit(m, virt) == visit_from(m, table, virt)

\* translate: Some([paddr, flags]) or None.
translate(m, virt) ==
    LET v == visit(m, virt) IN
    IF v = None THEN None
    ELSE LET eo == entry(m, Unwrap(v).table, Unwrap(v).i) IN
         IF eo = None THEN None
         ELSE IF ~address(Unwrap(eo)).ok THEN None
         ELSE Some([paddr |-> address(Unwrap(eo)).paddr,
                    flags |-> flags(Unwrap(eo))])

remap(m, fr, virt, f) ==
    LET v == visit(m, virt) IN
    IF v = None THEN Miss(m, fr, "miss")
    ELSE LET p1 == Unwrap(v).table
             i == Unwrap(v).i
             eo == entry(m, p1, i)
         IN  IF eo = None THEN Miss(m, fr, "miss")
             ELSE Outcome(set_entry(m, p1, i, set_flags(Unwrap(eo), f)),
                          fr, "some", NoPair, "", <<>>)

RECURSIVE unmap_phys_inner(_, _, _, _, _)
unmap_phys_inner(m, fr, vaddr, t, unmap_parents) ==
    LET io == index_of(t, vaddr) IN
    IF io = None THEN Miss(m, fr, "index")
    ELSE
    LET i == Unwrap(io) IN
    IF t.level = 0
    THEN LET eo == entry(m, t, i) IN
         IF eo = None THEN Miss(m, fr, "index")
         ELSE LET e == Unwrap(eo)
                  m1 == set_entry(m, t, i, 0)
              IN  IF address(e).ok
                  THEN Outcome(m1, fr, "some",
                               [paddr |-> address(e).paddr,
                                flags |-> flags(e)], "", <<>>)
                  ELSE Miss(m1, fr, "miss")
    ELSE LET so == next_level_table(m, t, i) IN
         IF so = None THEN Miss(m, fr, "miss")
         ELSE LET subtable == Unwrap(so)
                  r == unmap_phys_inner(m, fr, vaddr, subtable, unmap_parents)
                  x == \E k \in Indices :
                          present(Unwrap(entry(r.mem, subtable, k)))
              IN  IF r.ret = "none" THEN r
                  ELSE IF unmap_parents /\ ~x
                  THEN Outcome(set_entry(r.mem, t, i, 0),
                               free_one(r.free, subtable.phys),
                               r.ret, r.pair, r.why,
                               Append(r.freed, subtable.phys))
                  ELSE r

unmap_phys(m, fr, virt, unmap_parents) ==
    IF ~check_aligned(virt, PAGE_SIZE) THEN Miss(m, fr, "align")
    ELSE unmap_phys_inner(m, fr, virt, table, unmap_parents)

\* An unmap that leaves the leaf frame with its owner.
unmap_keeping_frame(m, fr, virt, unmap_parents) ==
    unmap_phys(m, fr, virt, unmap_parents)

unmap(m, fr, virt, unmap_parents) ==
    LET r == unmap_phys(m, fr, virt, unmap_parents) IN
    IF r.ret = "none" THEN r
    ELSE Outcome(r.mem, free_one(r.free, r.pair.paddr), r.ret, r.pair,
                 r.why, Append(r.freed, r.pair.paddr))

(***************************************************************************)
(* The calls a client of the mapper makes                                  *)
(***************************************************************************)
\* Page-aligned addresses with index 0 and 1 at level 0 and index 1 at
\* level 1, and an address that is not page-aligned.
VirtInputs == {0, PAGE_SIZE, PAGE_SIZE * PAGE_ENTRY_NUM, 1}

\* The frame outside the allocator, and an address that is not aligned.
PhysInputs == {AddrOf(ExtFrame), PAGE_SIZE + 1}

ReadOnly == BitOr(ENTRY_FLAG_PRESENT, ENTRY_FLAG_NO_EXEC)

ReadWrite ==
    BitOr(ENTRY_FLAG_PRESENT, BitOr(ENTRY_FLAG_READWRITE, ENTRY_FLAG_USER))

\* Flags: read-only kernel no-exec, read-write user executable, and
\* read-write without the present bit.
FlagInputs == {ReadOnly, ReadWrite, ENTRY_FLAG_READWRITE}

\* Arguments of map_phys: every aligned pair with every flags value, the
\* misaligned ones with one flags value.
MapPhysInputs ==
    { a \in VirtInputs \X PhysInputs \X FlagInputs :
        \/ check_aligned(a[1], PAGE_SIZE) /\ check_aligned(a[2], PAGE_SIZE)
        \/ a[3] = ReadWrite }

\* The record of the last call: its name and arguments, its result (ret is
\* "some", "none" or "panic"; pair is what a Some carries), why a none was
\* returned, the frames it took from the allocator, the addresses it passed
\* to free, and whether it re-installed the mapping that the call before
\* it had removed.
Call(op, virt, phys, f, parents, o, again) ==
    [op |-> op, virt |-> virt, phys |-> phys, flags |-> f,
     parents |-> parents, ret |-> o.ret, pair |-> o.pair, why |-> o.why,
     took |-> free \ o.free, freed |-> o.freed, again |-> again]

\* The last call unmapped a page, leaving the parent tables alone.
Unmapped ==
    last.op = "unmap_phys" /\ last.ret = "some" /\ ~last.parents

Running == last.ret # "panic" /\ calls < MaxCalls

\* A new mapper: an empty root table, every pool frame free.
InitMapper ==
    /\ mem = [f \in Frames |-> [k \in Indices |-> 0]]
    /\ free = PoolFrames
    /\ calls = 0
    /\ last = Call("new", 0, 0, 0, FALSE, Miss(mem, free, ""), FALSE)

\* No flusher, no invalidation, no iterator, no function applied.
NoTokens == {}

NoTlb == <<>>

NoIter == [type |-> "", start |-> 0, current |-> 0, end |-> 0,
           yielded |-> <<>>, done |-> FALSE]

NoPure == [fn |-> "", x |-> 0, level |-> 0, value |-> FALSE,
           panic |-> FALSE, out |-> None]

Init ==
    /\ InitMapper
    /\ tokens = NoTokens
    /\ tlb = NoTlb
    /\ iter = NoIter
    /\ pure = NoPure

\* The effect of a mapper call on the tables, the allocator and the record
\* of the last call.
Step(o, call) ==
    /\ mem' = o.mem
    /\ free' = o.free
    /\ calls' = calls + 1
    /\ last' = call

Do(o, call) ==
    /\ Step(o, call)
    /\ UNCHANGED <<tokens, tlb, iter, pure>>

\* map_phys(virt, phys, f) on arguments of the client's choice.
MapPhys ==
    /\ Running
    /\ \E a \in MapPhysInputs :
       \E o \in map_phys(mem, free, a[1], a[2], a[3]) :
          Do(o, Call("map_phys", a[1], a[2], a[3], FALSE, o, FALSE))

\* map_phys(virt, phys, f) with the pair that unmap_phys(virt, false) has
\* just returned.
MapAgain ==
    /\ Running
    /\ Unmapped
    /\ \E o \in map_phys(mem, free, last.virt, last.pair.paddr,
                         last.pair.flags) :
          Do(o, Call("map_phys", last.virt, last.pair.paddr,
                     last.pair.flags, FALSE, o, TRUE))

Map ==
    /\ Running
    /\ \E virt \in VirtInputs :
       \E r \in map(mem, free, virt, ReadWrite) :
          Do(r.out, Call("map", virt, r.phys, ReadWrite, FALSE, r.out, FALSE))

Remap ==
    /\ Running
    /\ \E virt \in VirtInputs, f \in FlagInputs :
       LET o == remap(mem, free, virt, f) IN
          Do(o, Call("remap", virt, 0, f, FALSE, o, FALSE))

Translate ==
    /\ Running
    /\ \E virt \in VirtInputs :
       LET r == translate(mem, virt) IN
          Do(IF r = None THEN Miss(mem, free, "miss")
             ELSE Outcome(mem, free, "some", Unwrap(r), "", <<>>),
             Call("translate", virt, 0, 0, FALSE,
                  IF r = None THEN Miss(mem, free, "miss")
                  ELSE Outcome(mem, free, "some", Unwrap(r), "", <<>>),
                  FALSE))

UnmapPhys ==
    /\ Running
    /\ \E virt \in VirtInputs, parents \in BOOLEAN :
       LET o == unmap_phys(mem, free, virt, parents) IN
          Do(o, Call("unmap_phys", virt, 0, 0, parents, o, FALSE))

Unmap ==
    /\ Running
    /\ \E virt \in VirtInputs, parents \in BOOLEAN :
       LET o == unmap(mem, free, virt, parents) IN
          Do(o, Call("unmap", virt, 0, 0, parents, o, FALSE))

Next ==
    \/ MapPhys
    \/ MapAgain
    \/ Map
    \/ Remap
    \/ Translate
    \/ UnmapPhys
    \/ Unmap

Spec == Init /\ [][Next]_vars

(***************************************************************************)
(* A client that calls only map_phys, remap and unmap_phys: every frame    *)
(* that leaves the allocator becomes an intermediate table.                *)
(***************************************************************************)
NextTables ==
    \/ MapPhys
    \/ MapAgain
    \/ Remap
    \/ UnmapPhys

SpecTables == Init /\ [][NextTables]_vars

(***************************************************************************)
(* The functions without state, each applied once to an argument           *)
(***************************************************************************)
\* The arguments: a word, a table level and a boolean.
PureInputs ==
    { [NoPure EXCEPT !.x = x, !.level = l, !.value = b] :
        x \in Word, l \in 0..(PAGE_LEVELS - 1), b \in BOOLEAN }

InitPure ==
    /\ InitMapper
    /\ tokens = NoTokens
    /\ tlb = NoTlb
    /\ iter = NoIter
    /\ pure \in PureInputs

\* The function fn has returned out, or has panicked.
Apply(fn, panic, out) ==
    /\ pure' = [pure EXCEPT !.fn = fn, !.panic = panic, !.out = out]
    /\ UNCHANGED <<mem, free, calls, last, tokens, tlb, iter>>

\* The table of the given level whose range holds the address.
TableOver(level, addr) ==
    LET span == 2^(PAGE_SHIFT + (level + 1) * PAGE_ENTRY_SHIFT)
        a == BitAnd(addr, PAGE_ADDRESS_MASK)
    IN  PageTable(a - (a % span), table_paddr, level)

RoundDown ==
    /\ pure.fn = ""
    /\ Apply("round_down", FALSE, Some(round_down_to_page_size(pure.x)))

RoundUp ==
    /\ pure.fn = ""
    /\ \E r \in round_up_to_page_size(pure.x) :
          Apply("round_up", r.panic, Some(r.v))

\* round_up_to_page_size(round_down_to_page_size(x))
RoundUpDown ==
    /\ pure.fn = ""
    /\ \E r \in round_up_to_page_size(round_down_to_page_size(pure.x)) :
          Apply("round_up_down", r.panic, Some(r.v))

SetWrite ==
    /\ pure.fn = ""
    /\ Apply("set_write", FALSE, Some(set_write(pure.x, pure.value)))

IndexOf ==
    /\ pure.fn = ""
    /\ Apply("index_of", FALSE,
             index_of(TableOver(pure.level, pure.x), pure.x))

NextPure ==
    \/ RoundDown
    \/ RoundUp
    \/ RoundUpDown
    \/ SetWrite
    \/ IndexOf

SpecPure == InitPure /\ [][NextPure]_vars


(***************************************************************************)
(* The mapper and the flushers of its client.  Every mapper call hands its *)
(* flusher, if it returns one, to the client; the client flushes it,       *)
(* ignores it or gives it to a collector.                                  *)
(***************************************************************************)
\* The flusher a call returns with its Some: PageFlush::new(virt).
flusher(call) ==
    IF call.ret = "some" /\ call.op # "translate"
    THEN Some(PageFlush_new(call.virt))
    ELSE None

\* A flusher in the client's hands, with the call it came from.
Token(id, fl, op, arg) ==
    [id |-> id, type |-> fl.type, virt |-> fl.virt, state |-> fl.state,
     op |-> op, arg |-> arg]

FlusherOf(tok) == [type |-> tok.type, virt |-> tok.virt, state |-> tok.state]

Held(type) == {tok \in tokens : tok.type = type /\ tok.state = "held"}

\* The token tok has become the flusher fl.
Becomes(tok, fl) ==
    tokens' = (tokens \ {tok}) \cup {[tok EXCEPT !.state = fl.state]}

\* A mapper call has returned.
Returned(o, call) ==
    /\ Step(o, call)
    /\ tokens' = tokens \cup
          (IF flusher(call) = None THEN {}
           ELSE {Token(calls + 1, Unwrap(flusher(call)), call.op, call.virt)})
    /\ UNCHANGED <<tlb, iter, pure>>

\* One page, and an address inside it that is not aligned.
FlushVirts == {0, 1}

FMapPhys ==
    /\ Running
    /\ \E virt \in FlushVirts :
       \E o \in map_phys(mem, free, virt, AddrOf(ExtFrame), ReadWrite) :
          Returned(o, Call("map_phys", virt, AddrOf(ExtFrame), ReadWrite,
                           FALSE, o, FALSE))

FMap ==
    /\ Running
    /\ \E virt \in FlushVirts :
       \E r \in map(mem, free, virt, ReadWrite) :
          Returned(r.out, Call("map", virt, r.phys, ReadWrite, FALSE, r.out,
                               FALSE))

FMapLinearly ==
    /\ Running
    /\ \E r \in map_linearly(mem, free, 0, ReadWrite) :
          Returned(r.out, Call("map_linearly", r.virt, 0, ReadWrite, FALSE,
                               r.out, FALSE))

FRemap ==
    /\ Running
    /\ \E virt \in FlushVirts :
       LET o == remap(mem, free, virt, ReadOnly) IN
          Returned(o, Call("remap", virt, 0, ReadOnly, FALSE, o, FALSE))

FTranslate ==
    /\ Running
    /\ \E virt \in FlushVirts :
       LET r == translate(mem, virt)
           o == IF r = None THEN Miss(mem, free, "miss")
                ELSE Outcome(mem, free, "some", Unwrap(r), "", <<>>)
       IN  Returned(o, Call("translate", virt, 0, 0, FALSE, o, FALSE))

FUnmapPhys ==
    /\ Running
    /\ \E virt \in FlushVirts :
       LET o == unmap_phys(mem, free, virt, FALSE) IN
          Returned(o, Call("unmap_phys", virt, 0, 0, FALSE, o, FALSE))

FUnmap ==
    /\ Running
    /\ \E virt \in FlushVirts :
       LET o == unmap(mem, free, virt, TRUE) IN
          Returned(o, Call("unmap", virt, 0, 0, TRUE, o, FALSE))

\* The client makes a whole-table flusher, one at a time.
NewFlushAll ==
    /\ \A tok \in tokens : tok.type # "all"
    /\ tokens' = tokens \cup {Token(0, PageFlushAll_new, "new", 0)}
    /\ UNCHANGED <<mem, free, calls, last, tlb, iter, pure>>

Flush ==
    \E tok \in Held("page") :
       LET r == PageFlush_flush(tlb, FlusherOf(tok)) IN
       /\ Becomes(tok, r.flusher)
       /\ tlb' = r.tlb
       /\ UNCHANGED <<mem, free, calls, last, iter, pure>>

FlushAll ==
    \E tok \in Held("all") :
       LET r == PageFlushAll_flush(tlb, FlusherOf(tok)) IN
       /\ Becomes(tok, r.flusher)
       /\ tlb' = r.tlb
       /\ UNCHANGED <<mem, free, calls, last, iter, pure>>

Ignore ==
    \E tok \in Held("page") \cup Held("all") :
       /\ Becomes(tok, ignore(FlusherOf(tok)))
       /\ UNCHANGED <<mem, free, calls, last, tlb, iter, pure>>

\* A PageFlushAll the client holds consumes a PageFlush.
ConsumeAll ==
    /\ Held("all") # {}
    /\ \E tok \in Held("page") :
          /\ Becomes(tok, consume_PageFlushAll(FlusherOf(tok)))
          /\ UNCHANGED <<mem, free, calls, last, tlb, iter, pure>>

\* The collector () consumes a PageFlush.
ConsumeUnit ==
    \E tok \in Held("page") :
       /\ Becomes(tok, consume_unit(FlusherOf(tok)))
       /\ UNCHANGED <<mem, free, calls, last, tlb, iter, pure>>

\* A reference to a collector consumes a PageFlush.
ConsumeRef ==
    \E tok \in Held("page") :
    \E collector \in {"()"} \cup
                     (IF Held("all") # {} THEN {"PageFlushAll"} ELSE {}) :
       /\ Becomes(tok, consume_ref(collector, FlusherOf(tok)))
       /\ UNCHANGED <<mem, free, calls, last, tlb, iter, pure>>

NextFlush ==
    \/ FMapPhys
    \/ FMap
    \/ FMapLinearly
    \/ FRemap
    \/ FTranslate
    \/ FUnmapPhys
    \/ FUnmap
    \/ NewFlushAll
    \/ Flush
    \/ FlushAll
    \/ Ignore
    \/ ConsumeAll
    \/ ConsumeUnit
    \/ ConsumeRef

SpecFlush == Init /\ [][NextFlush]_vars

(***************************************************************************)
(* A frame iterator, made by iter_range(a, a.next_by(n)) and then advanced *)
(* by next until it returns None                                           *)
(***************************************************************************)
IterInputs ==
    { [type |-> t, start |-> a, current |-> iter_range(a, next_by(a, n)).current,
       end |-> iter_range(a, next_by(a, n)).end, yielded |-> <<>>,
       done |-> FALSE] :
        t \in {"phys", "virt"}, a \in Frames, n \in 0..MaxIterLen }

InitIter ==
    /\ InitMapper
    /\ tokens = NoTokens
    /\ tlb = NoTlb
    /\ iter \in IterInputs
    /\ pure = NoPure

\* The iterator after a call of next that returned r.
Advance(r) ==
    /\ iter' = [iter EXCEPT !.current = r.it.current,
                            !.end = r.it.end,
                            !.yielded = IF r.item = None THEN @
                                        ELSE Append(@, Unwrap(r.item)),
                            !.done = (r.item = None)]
    /\ UNCHANGED <<mem, free, calls, last, tokens, tlb, pure>>

PhysNext ==
    /\ iter.type = "phys"
    /\ ~iter.done
    /\ Len(iter.yielded) < MaxNext
    /\ Advance(PhysPageFrameIter_next([current |-> iter.current,
                                        end |-> iter.end]))

VirtNext ==
    /\ iter.type = "virt"
    /\ ~iter.done
    /\ Len(iter.yielded) < MaxNext
    /\ Advance(VirtPageFrameIter_next([current |-> iter.current,
                                        end |-> iter.end]))

NextIter ==
    \/ PhysNext
    \/ VirtNext

SpecIter == InitIter /\ [][NextIter]_vars

(***************************************************************************)
(* Vocabulary of the properties                                            *)
(***************************************************************************)
\* The tables a walk for virt visits in memory m, from table t down.
RECURSIVE PathFrom(_, _, _)
PathFrom(m, t, virt) ==
    LET io == index_of(t, virt) IN
    IF io = None THEN <<t>>
    ELSE LET nt == next_level_table(m, t, Unwrap(io)) IN
         IF nt = None THEN <<t>>
         ELSE <<t>> \o PathFrom(m, Unwrap(nt), virt)

Path(m, virt) == PathFrom(m, table, virt)

\* The four logical predicates of two flag words agree.
SameLogicalBits(f, g) ==
    /\ flag_present(f) = flag_present(g)
    /\ write(f) = write(g)
    /\ execute(f) = execute(g)
    /\ user(f) = user(g)

AlignedPair(virt, phys) ==
    check_aligned(virt, PAGE_SIZE) /\ check_aligned(phys, PAGE_SIZE)

\* Number of times paddr occurs in the sequence of freed addresses.
TimesFreed(freed, paddr) ==
    Cardinality({k \in DOMAIN freed : freed[k] = paddr})

(***************************************************************************)
(* C1  round trip of map_phys and translate                                *)
(***************************************************************************)
\* C1: for page-aligned v and p and flags f (here even only flags with the
\* present bit), on a mapper with no prior mapping at v and an allocator
\* that does not run out, after map_phys(v, p, f) the call translate(v)
\* returns (p, f') where f' agrees with f on present, write, execute and
\* user.
C1_RoundTrip ==
    [][ ( /\ last'.op = "map_phys"
          /\ AlignedPair(last'.virt, last'.phys)
          /\ flag_present(last'.flags)
          /\ translate(mem, last'.virt) = None
          /\ last'.ret # "panic"
          /\ last'.why # "alloc" )
        => LET r == translate(mem', last'.virt) IN
           /\ r # None
           /\ Unwrap(r).paddr = last'.phys
           /\ SameLogicalBits(Unwrap(r).flags, last'.flags) ]_vars

(***************************************************************************)
(* C2  mapping a mapped page is fatal                                      *)
(***************************************************************************)
\* C2: when a mapping is installed at v, a further map_phys(v, p', f) with
\* aligned arguments aborts the kernel and does not return; it overwrites
\* nothing and takes or frees no frame.
C2_DoubleMapFatal ==
    [][ ( /\ last'.op = "map_phys"
          /\ AlignedPair(last'.virt, last'.phys)
          /\ translate(mem, last'.virt) # None )
        => /\ last'.ret = "panic"
           /\ mem' = mem
           /\ free' = free ]_vars

\* A map_phys call has aborted on a page that translates.
C2_Witness ==
    /\ last.op = "map_phys"
    /\ last.ret = "panic"
    /\ calls >= 2
    /\ translate(mem, last.virt) # None

(***************************************************************************)
(* C3  misaligned arguments of map_phys                                    *)
(***************************************************************************)
\* C3: map_phys with a virtual or a physical address that is not a
\* multiple of PAGE_SIZE returns none, takes no frame from the allocator
\* and changes no table entry.
C3_MisalignedRejected ==
    [][ ( /\ last'.op = "map_phys"
          /\ ~AlignedPair(last'.virt, last'.phys) )
        => /\ last'.ret = "none"
           /\ last'.took = {}
           /\ free' = free
           /\ mem' = mem ]_vars

\* map_phys has refused a misaligned physical address for an aligned page
\* while the allocator still had frames.
C3_Witness ==
    /\ last.op = "map_phys"
    /\ check_aligned(last.virt, PAGE_SIZE)
    /\ ~check_aligned(last.phys, PAGE_SIZE)
    /\ last.ret = "none"
    /\ free # {}

(***************************************************************************)
(* C4  allocator exhaustion inside map_phys                                *)
(***************************************************************************)
\* C4: if the allocator cannot supply a frame for an intermediate table,
\* map_phys returns none, writes no leaf entry for v and changes no present
\* entry; every intermediate table it installed earlier on the walk stays
\* installed in its parent, and no frame is given back.
C4_ExhaustionKeepsTables ==
    [][ ( /\ last'.op = "map_phys"
          /\ last'.why = "alloc" )
        => LET path == Path(mem', last'.virt) IN
           /\ last'.ret = "none"
           /\ translate(mem', last'.virt) = None
           /\ Len(path) < PAGE_LEVELS
           /\ free' = {}
           /\ last'.freed = <<>>
           /\ \A fr \in free \ free' :
                 \E k \in 2..Len(path) : path[k].phys = AddrOf(fr)
           /\ \A fr \in Frames \ free : \A k \in Indices :
                 present(mem[fr][k]) => mem'[fr][k] = mem[fr][k] ]_vars

\* map_phys ran out of frames after it had installed a table on this walk.
C4_Witness ==
    /\ last.op = "map_phys"
    /\ last.why = "alloc"
    /\ last.took # {}
    /\ Len(Path(mem, last.virt)) = PAGE_LEVELS - 1

(***************************************************************************)
(* C5  remap keeps the physical address                                    *)
(***************************************************************************)
\* C5 as stated: for every mapped v and every flags f, after remap(v, f)
\* translate(v) returns the physical address it returned before and the
\* flags f.
C5_RemapAnyFlags ==
    [][ ( /\ last'.op = "remap"
          /\ translate(mem, last'.virt) # None )
        => /\ last'.ret = "some"
           /\ translate(mem', last'.virt) =
                 Some([paddr |-> Unwrap(translate(mem, last'.virt)).paddr,
                       flags |-> last'.flags]) ]_vars

\* C5: for every mapped v and every flags f that carry the present bit,
\* after remap(v, f) translate(v) returns the physical address it returned
\* before and the flags f.
C5_RemapPresentFlags ==
    [][ ( /\ last'.op = "remap"
          /\ flag_present(last'.flags)
          /\ translate(mem, last'.virt) # None )
        => /\ last'.ret = "some"
           /\ translate(mem', last'.virt) =
                 Some([paddr |-> Unwrap(translate(mem, last'.virt)).paddr,
                       flags |-> last'.flags]) ]_vars

\* A page maps the external frame read-write after a remap to read-write.
C5_Witness ==
    /\ last.op = "remap"
    /\ last.ret = "some"
    /\ last.flags = ReadWrite
    /\ calls >= 2
    /\ translate(mem, last.virt) =
          Some([paddr |-> AddrOf(ExtFrame), flags |-> ReadWrite])

(***************************************************************************)
(* C6  remap of a page that is not mapped                                  *)
(***************************************************************************)
\* C6: remap(v, f) on a v that has no mapping (an intermediate table is
\* missing, or the leaf table is there and the slot of v holds no present
\* entry) returns none and produces no flusher.
C6_RemapMiss ==
    [][ ( /\ last'.op = "remap"
          /\ translate(mem, last'.virt) = None )
        => last'.ret = "none" ]_vars

(***************************************************************************)
(* C7  unmap_phys(v, false) followed by map_phys restores the mapping      *)
(***************************************************************************)
\* C7: for every existing mapping (v, p, f), unmap_phys(v, false) returns
\* (p, f, flusher) and makes translate(v) none; map_phys(v, p, f) right
\* after it succeeds and makes translate(v) return (p, f) again.
C7_UnmapMapRestores ==
    [][ /\ ( /\ last'.op = "unmap_phys"
             /\ ~last'.parents
             /\ check_aligned(last'.virt, PAGE_SIZE)
             /\ translate(mem, last'.virt) # None )
           => /\ last'.ret = "some"
              /\ last'.pair = Unwrap(translate(mem, last'.virt))
              /\ translate(mem', last'.virt) = None
        /\ last'.again
           => /\ last'.ret = "some"
              /\ translate(mem', last'.virt) = Some(last.pair) ]_vars

(***************************************************************************)
(* C8  unmap_phys(v, true) keeps the tree sparse                           *)
(***************************************************************************)
\* C8: after a successful unmap_phys(v, true), every table on the path of
\* v below the root that is left without a present entry is unlinked from
\* its parent and freed exactly once, level by level upward; a table that
\* still holds a present entry stays linked and is not freed; nothing else
\* is freed.
C8_TreeSparsity ==
    [][ ( /\ last'.op = "unmap_phys"
          /\ last'.parents
          /\ last'.ret = "some" )
        => LET path == Path(mem, last'.virt)
               Empty(t) == \A k \in Indices :
                              ~present(Unwrap(entry(mem', t, k)))
               Slot(k) == Unwrap(index_of(path[k], last'.virt))
           IN  /\ Len(path) = PAGE_LEVELS
               /\ \A k \in 2..Len(path) :
                     IF Empty(path[k])
                     THEN /\ Unwrap(entry(mem', path[k - 1], Slot(k - 1))) = 0
                          /\ TimesFreed(last'.freed, path[k].phys) = 1
                          /\ FrameOf(path[k].phys) \notin free
                          /\ FrameOf(path[k].phys) \in free'
                     ELSE /\ Unwrap(entry(mem', path[k - 1], Slot(k - 1)))
                               = Unwrap(entry(mem, path[k - 1], Slot(k - 1)))
                          /\ TimesFreed(last'.freed, path[k].phys) = 0
               /\ \A j \in DOMAIN last'.freed :
                     \E k \in 2..Len(path) : path[k].phys = last'.freed[j]
               /\ free' = free \cup
                     {FrameOf(last'.freed[j]) : j \in DOMAIN last'.freed} ]_vars

(***************************************************************************)
(* C9  unmap is unmap_phys plus the release of the leaf frame              *)
(***************************************************************************)
\* C9: unmap(v, parents) does what unmap_phys(v, parents) does, and when
\* that returns a mapping it passes the frame v was mapped to to the
\* allocator's free exactly once more; when unmap_phys returns none, unmap
\* returns none and frees nothing.
C9_UnmapFreesLeaf ==
    [][ last'.op = "unmap"
        => LET r == unmap_phys(mem, free, last'.virt, last'.parents)
               t == translate(mem, last'.virt)
           IN  /\ mem' = r.mem
               /\ last'.ret = r.ret
               /\ last'.pair = r.pair
               /\ IF r.ret = "some"
                  THEN /\ t # None
                       /\ last'.freed = Append(r.freed, Unwrap(t).paddr)
                       /\ free' = r.free \cup {FrameOf(Unwrap(t).paddr)}
                  ELSE /\ last'.freed = <<>>
                       /\ free' = free ]_vars

\* unmap has released the frame that map had taken for the page.
C9_Witness ==
    /\ last.op = "unmap"
    /\ last.ret = "some"
    /\ Len(last.freed) >= 1
    /\ last.freed[Len(last.freed)] = last.pair.paddr
    /\ FrameOf(last.pair.paddr) \in PoolFrames
    /\ FrameOf(last.pair.paddr) \in free

(***************************************************************************)
(* C10  the root table is never freed                                      *)
(***************************************************************************)
\* C10: unmap_phys(v, true) never unlinks or frees the root table, also
\* when it removes the last mapping and leaves the root empty.
C10_RootNeverFreed ==
    ( /\ last.op = "unmap_phys"
      /\ last.parents )
    => /\ TimesFreed(last.freed, table_paddr) = 0
       /\ FrameOf(table_paddr) \notin free

(***************************************************************************)
(* C11, C12  the accounting of scenarios S1 and S2                         *)
(***************************************************************************)
\* The arguments of scenario S1: a user page whose level-1 index is not
\* zero (0x400000 in the scenario), a frame outside the allocator, and the
\* flags present, writable, user.
S1Call(call) ==
    /\ call.op = "map_phys"
    /\ call.virt = PAGE_SIZE * PAGE_ENTRY_NUM
    /\ call.phys = AddrOf(ExtFrame)
    /\ call.flags = ReadWrite

\* C11: on a new user mapper that holds only its root table, the map_phys
\* call of scenario S1 returns a flusher and the allocator's used count
\* grows by 1 (leaf) + PAGE_LEVELS - 1 (intermediate tables).
C11_S1Accounting ==
    [][ ( /\ calls = 0
          /\ S1Call(last') )
        => /\ last'.ret = "some"
           /\ Cardinality(free) - Cardinality(free') = PAGE_LEVELS ]_vars

\* C12: after the single mapping of S1, unmap_phys(v, true) returns the
\* physical address and the flags of S1 with a flusher, and the allocator's
\* used count shrinks by 1 + PAGE_LEVELS - 1.
C12_S2Accounting ==
    [][ ( /\ calls = 1
          /\ S1Call(last)
          /\ last'.op = "unmap_phys"
          /\ last'.virt = last.virt
          /\ last'.parents )
        => /\ last'.ret = "some"
           /\ last'.pair = [paddr |-> last.phys, flags |-> last.flags]
           /\ Cardinality(free') - Cardinality(free) = PAGE_LEVELS ]_vars

(***************************************************************************)
(* C20  new intermediate tables are empty                                  *)
(***************************************************************************)
\* The page-aligned virtual addresses.
Pages == {v \in Word : check_aligned(v, PAGE_SIZE) /\ v < PAGE_ADDRESS_SIZE}

\* C20: when map_phys installs frames from the allocator as child tables
\* and returns, whatever the frames held before, their only present
\* entries are in the slots of the walk for virt, and no virtual page other
\* than virt becomes translatable.
C20_FreshTablesEmpty ==
    [][ ( /\ last'.op = "map_phys"
          /\ last'.ret # "panic"
          /\ last'.took # {} )
        => LET path == Path(mem', last'.virt) IN
           /\ \A fr \in last'.took : \A k \in Indices :
                 present(mem'[fr][k])
                 => \E j \in DOMAIN path :
                       /\ path[j].phys = AddrOf(fr)
                       /\ index_of(path[j], last'.virt) = Some(k)
           /\ \A u \in Pages \ {last'.virt} :
                 translate(mem, u) = None => translate(mem', u) = None ]_vars

(***************************************************************************)
(* C17  rounding to the page size                                          *)
(***************************************************************************)
\* C17: for every word x, round_down_to_page_size(x) <= x <
\* round_down_to_page_size(x) + PAGE_SIZE, round_up_to_page_size(x) returns
\* a value >= x, and round_up(round_down(x)) = round_down(x); also for x
\* within PAGE_SIZE - 1 of the largest word.
C17_RoundingLaws ==
    /\ pure.fn = "round_down"
       => /\ Unwrap(pure.out) <= pure.x
          /\ pure.x < Unwrap(pure.out) + PAGE_SIZE
    /\ pure.fn = "round_up"
       => /\ ~pure.panic
          /\ Unwrap(pure.out) >= pure.x
    /\ pure.fn = "round_up_down"
       => /\ ~pure.panic
          /\ Unwrap(pure.out) = round_down_to_page_size(pure.x)

C19_IndexOf ==
    pure.fn = "index_of"
    => pure.out =
          Some(BitAnd(Shr(BitAnd(pure.x, PAGE_ADDRESS_MASK),
                          PAGE_SHIFT + pure.level * PAGE_ENTRY_SHIFT),
                      PAGE_ENTRY_MASK))

(***************************************************************************)
(* C15, C16  the frame iterators                                           *)
(***************************************************************************)
\* C15: for every frame a and every n >= 0, iter_range(a, a.next_by(n))
\* yields the n frames a, a + 1, ..., a + n - 1, once each and in this
\* order, and then none; iter_range(a, a) yields nothing.  For the
\* physical and for the virtual iterator.
C15_HalfOpenRange ==
    /\ \A k \in DOMAIN iter.yielded : iter.yielded[k] = iter.start + k - 1
    /\ Len(iter.yielded) <= iter.end - iter.start
    /\ iter.done => Len(iter.yielded) = iter.end - iter.start

\* C16: for start <= end, every call of next that returns an item advances
\* the iterator's current frame, and after end - start items next returns
\* none: the iterator never yields more items than its range holds.
C16_IteratorFinite ==
    [][ /\ Len(iter'.yielded) > Len(iter.yielded)
           => iter'.current > iter.current
        /\ Len(iter'.yielded) <= iter'.end - iter'.start ]_vars

(***************************************************************************)
(* C13  the mapper never touches the TLB                                   *)
(***************************************************************************)
\* C13: no mapper operation asks for a TLB invalidation; invalidate_page(v)
\* is issued only by flush on a single-page flusher the client holds, which
\* a successful mapper operation on v returned and which carries exactly v;
\* each flush issues one invalidation.
C13_TlbOnlyThroughFlush ==
    [][ /\ calls' # calls => tlb' = tlb
        /\ tlb' # tlb
           => /\ Len(tlb') = Len(tlb) + 1
              /\ tlb = SubSeq(tlb', 1, Len(tlb))
              /\ LET inv == tlb'[Len(tlb')] IN
                 \E tok \in tokens :
                    /\ tok.state = "held"
                    /\ [tok EXCEPT !.state = "flushed"] \in tokens'
                    /\ IF inv.op = "invalidate_page"
                       THEN /\ tok.type = "page"
                            /\ tok.virt = inv.virt
                            /\ tok.arg = inv.virt
                            /\ tok.op \in {"map", "map_phys", "map_linearly",
                                           "remap", "unmap", "unmap_phys"}
                       ELSE /\ inv.op = "invalidate_all"
                            /\ tok.type = "all"
        /\ \A tok \in tokens' \ tokens :
              (tok.type = "page" /\ tok.state = "held")
              => /\ calls' = calls + 1
                 /\ last'.ret = "some"
                 /\ tok.op = last'.op
                 /\ tok.arg = last'.virt
                 /\ tok.virt = last'.virt ]_vars

\* The flusher that remap returned for an address inside a mapped page was
\* flushed, and the TLB was asked to invalidate exactly that address.
C13_Witness ==
    \E tok \in tokens :
       /\ tok.op = "remap"
       /\ tok.state = "flushed"
       /\ ~check_aligned(tok.virt, PAGE_SIZE)
       /\ \E k \in DOMAIN tlb :
             tlb[k] = [op |-> "invalidate_page", virt |-> tok.virt]

(***************************************************************************)
(* C14  every flusher is flushed or ignored                                *)
(***************************************************************************)
\* C14: every flusher that is created ends through exactly one of flush
\* and ignore; none is discarded without either, also not one handed to the
\* consume of a collector.
C14_NoSilentDrop ==
    \A tok \in tokens : tok.state \in {"held", "flushed", "ignored"}

(***************************************************************************)
(* C21  unmapping one page leaves the other pages alone                    *)
(***************************************************************************)
\* C21: when v and u are distinct page-aligned addresses that are both
\* mapped, unmap_phys(v, unmap_parents), with either value of
\* unmap_parents, leaves translate(u) as it was.
C21_UnmapLeavesOthers ==
    [][ ( /\ last'.op = "unmap_phys"
          /\ translate(mem, last'.virt) # None )
        => \A u \in Pages \ {last'.virt} :
              translate(mem, u) # None
              => translate(mem', u) = translate(mem, u) ]_vars

(***************************************************************************)
(* C22  conservation of the frames of intermediate tables                  *)
(***************************************************************************)
\* The present entries of the tables above level 0 that a walk from table
\* t can reach in memory m: the word [frame, k] and the frame it points to.
RECURSIVE LinksFrom(_, _)
LinksFrom(m, t) ==
    IF t.level = 0 THEN {}
    ELSE UNION { LET nt == next_level_table(m, t, k) IN
                 IF nt = None THEN {}
                 ELSE {[frame |-> FrameOf(t.phys), k |-> k,
                        to |-> FrameOf(Unwrap(nt).phys)]}
                      \cup LinksFrom(m, Unwrap(nt)) : k \in Indices }

Links(m) == LinksFrom(m, table)

\* The frames taken from the allocator and not given back.
Owned(fr) == PoolFrames \ fr

\* Every owned frame is the target of exactly one reachable present
\* non-leaf entry, and no such entry points to a frame that is free.
TablesConserved ==
    /\ \A f \in Owned(free) :
          Cardinality({<<l.frame, l.k>> : l \in {x \in Links(mem) : x.to = f}})
          = 1
    /\ \A l \in Links(mem) : l.to \notin free

\* C22: after any sequence of map_phys, remap and unmap_phys calls that
\* return, every frame obtained for an intermediate table and not freed
\* is pointed to by exactly one present non-leaf entry reachable from the
\* root, no frame is freed twice, and no frame that a present non-leaf
\* entry still points to has been freed.
C22_FrameConservation ==
    [][ last'.ret # "panic"
        => /\ TablesConserved'
           /\ \A j \in DOMAIN last'.freed :
                 /\ FrameOf(last'.freed[j]) \notin free
                 /\ TimesFreed(last'.freed, last'.freed[j]) = 1 ]_vars

(***************************************************************************)
(* C23  map gives its backing frame back when it fails                     *)
(***************************************************************************)
\* C23: when map(virt, flags) returns none, the frame it took for the page
\* is back with the allocator, so the frames the call has taken are only
\* the intermediate tables it installed.
C23_MapReturnsLeaf ==
    [][ ( /\ last'.op = "map"
          /\ last'.ret = "none"
          /\ last'.why # "alloc_leaf" )
        => /\ FrameOf(last'.phys) \in free'
           /\ FrameOf(last'.phys) \notin last'.took ]_vars

(***************************************************************************)
(* C24  an unmap that fails changes nothing                                *)
(***************************************************************************)
\* C24: when unmap_phys(v, unmap_parents) returns none, every page-table
\* entry and the allocator are as before the call; a leaf entry that is
\* not zero and lacks the present bit is not overwritten.
C24_FailedUnmapNoChange ==
    [][ ( /\ last'.op = "unmap_phys"
          /\ last'.ret = "none" )
        => /\ mem' = mem
           /\ free' = free ]_vars

====
